---- MODULE Spec2Model ----
(***************************************************************************)
(* Model of src/mvp_completo_analise_propostas_ia.py: the contract         *)
(* analyser (ler_arquivo, analisar_contrato, extrair_metricas, main).      *)
(*                                                                         *)
(* Texts are sequences of atoms.  A document atom is one character, except *)
(* "K", which stands for the word 'confidential' in any letter case.  An   *)
(* analysis atom is one character or one of the phrases the extractor      *)
(* searches for: "L" is the label 'Conformidade geral:', "R" the marker    *)
(* glyph, and "Aprovar" / "Reprovar" / "Revisar" the recommendation words. *)
(***************************************************************************)
EXTENDS Integers, Sequences, FiniteSets, TLC

VARIABLES
    pc,               \* position of main / analisar_contrato
    nPropostas,       \* len(propostas), the uploaded candidate files
    i,                \* index of the candidate the for loop of main is at
    services_cached,  \* st.cache_resource already holds init_services()
    services,         \* the dict init_services returned (its keys)
    texto_base,       \* main: texto_base
    texto_proposta,   \* main: texto_proposta
    prompt,           \* analisar_contrato: the texts embedded in prompt
    analise,          \* the value analisar_contrato returns
    metricas,         \* the value extrair_metricas returns
    resultados,       \* main: resultados
    metricas_gerais,  \* main: metricas_gerais
    erros,            \* st.error calls of main, in order
    calls,            \* history: provider calls made for the current candidate
    falhas,           \* history: (candidate, step) pairs whose step failed
    n_lidos,          \* history: candidate files handed to ler_arquivo
    n_chamadas,       \* history: provider calls made in the whole run
    entrada,          \* pure-function specifications: the input text
    orcamento,        \* pure-function specifications: the budget N
    limitado,         \* bound(entrada, N)
    relimitado        \* bound(bound(entrada, N), M)

vars == <<pc, nPropostas, i, services_cached, services, texto_base,
          texto_proposta, prompt, analise, metricas, resultados,
          metricas_gerais, erros, calls, falhas, n_lidos, n_chamadas,
          entrada, orcamento, limitado, relimitado>>

(***************************************************************************)
(* Bounds of the model.                                                    *)
(***************************************************************************)
MaxPropostas == 2
MaxBudget == 3
MaxTexto == 4
MaxAnalise == 4

(***************************************************************************)
(* Program constants.  MAX_TOKENS is 30000 in the source; the model scales *)
(* it to the length of the texts it explores.                              *)
(***************************************************************************)
MAX_FILE_SIZE_MB == 25
MAX_TOKENS == MaxBudget
MAX_PAGES == 50

(***************************************************************************)
(* Python values.                                                          *)
(***************************************************************************)
None == [tag |-> "None"]
Some(v) == [tag |-> "Some", val |-> v]

Min(a, b) == IF a <= b THEN a ELSE b
Max(a, b) == IF a >= b THEN a ELSE b

\* a slip in the slice: text[-N:], the end of the text instead of its start
bound_sufixo(text, N) ==
    SubSeq(text, Len(text) - Min(N, Len(text)) + 1, Len(text))

\* text[:N], Python's slice from the start
bound(text, N) ==
    IF N >= 0
    THEN SubSeq(text, 1, Min(N, Len(text)))
    ELSE SubSeq(text, 1, Max(0, Len(text) + N))

Whitespace == {" ", "\n"}
Digits == {"0", "1", "2", "3", "4", "5", "6", "7", "8", "9"}

RECURSIVE lstrip(_)
lstrip(s) ==
    IF s # <<>> /\ Head(s) \in Whitespace THEN lstrip(Tail(s)) ELSE s

RECURSIVE rstrip(_)
rstrip(s) ==
    IF s # <<>> /\ s[Len(s)] \in Whitespace
    THEN rstrip(SubSeq(s, 1, Len(s) - 1))
    ELSE s

\* str.strip()
strip(s) == rstrip(lstrip(s))

\* str.isdigit()
isdigit(s) == s # <<>> /\ \A k \in 1..Len(s) : s[k] \in Digits

\* text.split('\n'): always at least one line
RECURSIVE split(_)
split(text) ==
    IF \A k \in 1..Len(text) : text[k] # "\n"
    THEN <<text>>
    ELSE LET p == CHOOSE k \in 1..Len(text) :
                     text[k] = "\n" /\ \A j \in 1..(k - 1) : text[j] # "\n"
         IN  <<SubSeq(text, 1, p - 1)>> \o split(SubSeq(text, p + 1, Len(text)))

\* '\n'.join(lines)
RECURSIVE join(_)
join(lines) ==
    IF lines = <<>> THEN <<>>
    ELSE IF Len(lines) = 1 THEN lines[1]
    ELSE lines[1] \o <<"\n">> \o join(Tail(lines))

\* the filter of lines 98-100 and 107-109
manter_linha(line) ==
    /\ ~ isdigit(strip(line))
    /\ ~ (line # <<>> /\ line[1] = "K")

RECURSIVE filtrar_linhas(_)
filtrar_linhas(lines) ==
    IF lines = <<>> THEN <<>>
    ELSE (IF manter_linha(Head(lines)) THEN <<Head(lines)>> ELSE <<>>)
         \o filtrar_linhas(Tail(lines))

\* one page of the PDF loop: page.extract_text() or "", filtered and joined
texto_pagina(page) ==
    LET page_text == IF page.tag = "None" THEN <<>> ELSE page.val
    IN  join(filtrar_linhas(split(page_text)))

RECURSIVE texto_paginas(_)
texto_paginas(pages) ==
    IF pages = <<>> THEN <<>>
    ELSE <<texto_pagina(Head(pages))>> \o texto_paginas(Tail(pages))

Ok(t) == [ok |-> TRUE, text |-> t]
Err(m) == [ok |-> FALSE, erro |-> m]

\* ler_arquivo: Ok(text) when it returns, Err when it raises ValueError
ler_arquivo(file) ==
    IF file.size > MAX_FILE_SIZE_MB * 1024 * 1024
    THEN Err("Arquivo muito grande")
    ELSE IF file.ext = "pdf"
    THEN IF ~ file.legivel
         THEN Err("Erro ao ler")
         ELSE Ok(bound(join(texto_paginas(bound(file.pages, MAX_PAGES))),
                       MAX_TOKENS))
    ELSE IF file.ext = "docx"
    THEN IF ~ file.legivel
         THEN Err("Erro ao ler")
         ELSE Ok(bound(join(filtrar_linhas(split(file.text))), MAX_TOKENS))
    ELSE Err("Formato invalido")

(***************************************************************************)
(* extrair_metricas.                                                       *)
(***************************************************************************)
DigitVal(d) ==
    CASE d = "0" -> 0 [] d = "1" -> 1 [] d = "2" -> 2 [] d = "3" -> 3
      [] d = "4" -> 4 [] d = "5" -> 5 [] d = "6" -> 6 [] d = "7" -> 7
      [] d = "8" -> 8 [] d = "9" -> 9

RECURSIVE digits_value(_)
digits_value(s) ==
    IF s = <<>> THEN 0
    ELSE digits_value(SubSeq(s, 1, Len(s) - 1)) * 10 + DigitVal(s[Len(s)])

\* the digits of int(s) once the blanks around and the sign are taken off
int_digits(s) ==
    LET t == strip(s)
    IN  IF t # <<>> /\ t[1] \in {"-", "+"} THEN Tail(t) ELSE t

\* int(s) returns (it raises ValueError otherwise)
int_ok(s) == isdigit(int_digits(s))

\* int(s), for int_ok(s)
int_value(s) ==
    LET t == strip(s)
    IN  IF t[1] = "-" THEN 0 - digits_value(int_digits(s))
        ELSE digits_value(int_digits(s))

\* analise.find(atom, start): the first index >= start holding atom, 0 for -1
find(text, atom, start) ==
    IF \E k \in start..Len(text) : text[k] = atom
    THEN CHOOSE k \in start..Len(text) :
             text[k] = atom /\ \A j \in start..(k - 1) : text[j] # atom
    ELSE 0

\* analise.count(atom)
count(text, atom) == Cardinality({k \in 1..Len(text) : text[k] = atom})

contem(text, atom) == \E k \in 1..Len(text) : text[k] = atom

\* the text between the label and the first "%" after it (lines 221-224)
trecho_conformidade(text) ==
    LET start == find(text, "L", 1) + 1
        end == find(text, "%", start)
    IN  SubSeq(text, start, end - 1)

\* the int() of line 224 is reached
le_conformidade(text) ==
    /\ contem(text, "L")
    /\ find(text, "%", find(text, "L", 1) + 1) # 0

recomendacao(text) ==
    IF contem(text, "Aprovar") THEN "Aprovar"
    ELSE IF contem(text, "Reprovar") THEN "Reprovar"
    ELSE IF contem(text, "Revisar") THEN "Revisar"
    ELSE "Indefinido"

\* extrair_metricas: the dict it returns, or None from its bare except
extrair_metricas(text) ==
    IF le_conformidade(text) /\ ~ int_ok(trecho_conformidade(text))
    THEN None
    ELSE [tag |-> "dict",
          Conformidade |-> IF le_conformidade(text)
                           THEN int_value(trecho_conformidade(text))
                           ELSE 0,
          PontosCriticos |-> count(text, "R"),
          Recomendacao |-> recomendacao(text)]

(***************************************************************************)
(* Inputs of the run: uploaded files, the environment of init_services and *)
(* what a provider call can do.                                            *)
(***************************************************************************)
Arquivo(ext, size, legivel, pages, text) ==
    [ext |-> ext, size |-> size, legivel |-> legivel, pages |-> pages,
     text |-> text]

\* a PDF with one page of text, a page number under it
ArquivoTexto ==
    Arquivo("pdf", 1000, TRUE, <<Some(<<"a", "b", "\n", "7">>)>>, <<>>)
\* a scanned PDF: no page has extractable text
ArquivoDigitalizado == Arquivo("pdf", 1000, TRUE, <<None, Some(<<>>)>>, <<>>)
\* a DOCX holding only a confidentiality banner and a page number
ArquivoSoRodape ==
    Arquivo("docx", 1000, TRUE, <<>>, <<"K", "a", "\n", " ", "7">>)
ArquivoDocx == Arquivo("docx", 1000, TRUE, <<>>, <<"a", " ", "b", "c">>)
ArquivoGrande ==
    Arquivo("pdf", MAX_FILE_SIZE_MB * 1024 * 1024 + 1, TRUE,
            <<Some(<<"a">>)>>, <<>>)
ArquivoTxt == Arquivo("txt", 1000, TRUE, <<>>, <<"a">>)
ArquivoCorrompido == Arquivo("pdf", 1000, FALSE, <<>>, <<>>)

Arquivos ==
    {ArquivoTexto, ArquivoDigitalizado, ArquivoSoRodape, ArquivoDocx,
     ArquivoGrande, ArquivoTxt, ArquivoCorrompido}

\* what the key lookup and the connection test of init_services find
Ambientes == {"sem_chave", "falhou", "conectado"}

\* init_services: the keys of the dict it returns
init_services(openai_env, gemini_env) ==
    (IF openai_env = "conectado" THEN {"openai"} ELSE {})
    \cup (IF gemini_env = "conectado" THEN {"gemini"} ELSE {})

ErrorKinds ==
    {"RateLimited", "Unauthorized", "Timeout", "ServiceUnavailable",
     "Malformed"}

\* the texts a provider answers with in the run
Respostas ==
    { <<>>,
      <<"L", " ", "6", "2", "%", " ", "R", " ", "Revisar">>,
      <<"L", " ", "%">>,
      <<"x">> }

\* a provider call: it raises (erro) or returns content, which may be None
Retorno(conteudo) == [erro |-> "none", conteudo |-> conteudo]
Excecao(kind) == [erro |-> kind, conteudo |-> None]

DesfechosOpenAI ==
    {Retorno(Some(t)) : t \in Respostas} \cup {Retorno(None)}
    \cup {Excecao(k) : k \in ErrorKinds}

\* response.text of Gemini is a string or raises
DesfechosGemini ==
    {Retorno(Some(t)) : t \in Respostas} \cup {Excecao(k) : k \in ErrorKinds}

Chamada(provider, d) == [provider |-> provider, desfecho |-> d]

(***************************************************************************)
(* main and analisar_contrato.                                             *)
(***************************************************************************)
Init ==
    /\ pc = "idle"
    /\ nPropostas \in 0..MaxPropostas
    /\ i = 0
    /\ services_cached = FALSE
    /\ services = {}
    /\ texto_base = None
    /\ texto_proposta = None
    /\ prompt = None
    /\ analise = None
    /\ metricas = None
    /\ resultados = <<>>
    /\ metricas_gerais = <<>>
    /\ erros = <<>>
    /\ calls = <<>>
    /\ falhas = {}
    /\ n_lidos = 0
    /\ n_chamadas = 0
    /\ entrada = <<>>
    /\ orcamento = 0
    /\ limitado = None
    /\ relimitado = None

puras == <<entrada, orcamento, limitado, relimitado>>

Erro(proposta, msg) == [proposta |-> proposta, msg |-> msg]

\* the end of one iteration of the for loop of main: the locals of the
\* iteration are dead (each is assigned again before it is read)
FimDaIteracao ==
    /\ i' = i + 1
    /\ pc' = "loop"
    /\ texto_proposta' = None
    /\ prompt' = None
    /\ analise' = None
    /\ calls' = <<>>

\* a slip in main: the baseline is read inside its own try and the run goes on
DestinoBase_continua(r) == "loop"

\* where main goes once ler_arquivo(contrato_base) has returned or raised
DestinoBase(r) == IF r.ok THEN "loop" ELSE "erro_critico"

\* lines 251-260: the button, with both uploads present; the baseline is read
Executar ==
    /\ pc = "idle"
    /\ nPropostas > 0
    /\ \E f \in Arquivos :
          LET r == ler_arquivo(f)
          IN  /\ pc' = DestinoBase(r)
              /\ texto_base' = IF r.ok THEN Some(r.text) ELSE None
              /\ erros' = IF r.ok THEN erros
                          ELSE Append(erros, Erro(0, "Erro critico"))
    /\ i' = 1
    /\ UNCHANGED <<nPropostas, services_cached, services, texto_proposta,
                   prompt, analise, metricas, resultados, metricas_gerais,
                   calls, falhas, n_lidos, n_chamadas, puras>>

\* lines 262-265 and 293-295: the next candidate is read
LerProposta ==
    /\ pc = "loop"
    /\ i <= nPropostas
    /\ n_lidos' = n_lidos + 1
    /\ \E f \in Arquivos :
          LET r == ler_arquivo(f)
          IN  IF r.ok
              THEN /\ texto_proposta' = Some(r.text)
                   /\ pc' = "analisar"
                   /\ UNCHANGED <<i, erros, falhas>>
              ELSE /\ texto_proposta' = None
                   /\ erros' = Append(erros, Erro(i, "Falha na proposta"))
                   /\ falhas' = falhas \cup {<<i, "leitura">>}
                   /\ i' = i + 1
                   /\ pc' = "loop"
    /\ UNCHANGED <<nPropostas, services_cached, services, texto_base, prompt,
                   analise, metricas, calls, resultados, metricas_gerais,
                   n_chamadas, puras>>

\* the first provider analisar_contrato turns to (lines 176 and 190)
PrimeiroProvedor(svc) ==
    IF "openai" \in svc THEN "openai"
    ELSE IF "gemini" \in svc THEN "gemini"
    ELSE "retorno"

\* lines 140-174: the two texts and the name the f-string embeds
montar_prompt(contrato_base, proposta, nome_proposta) ==
    [base |-> bound(contrato_base, MAX_TOKENS),
     proposta |-> bound(proposta, MAX_TOKENS),
     nome |-> nome_proposta]

\* lines 138-174: init_services (cached after its first call) and the prompt
IniciarAnalise ==
    /\ pc = "analisar"
    /\ IF services_cached
       THEN services' = services
       ELSE \E oe \in Ambientes, ge \in Ambientes :
               services' = init_services(oe, ge)
    /\ services_cached' = TRUE
    /\ prompt' = Some(montar_prompt(texto_base.val, texto_proposta.val, i))
    /\ pc' = PrimeiroProvedor(services')
    /\ UNCHANGED <<nPropostas, i, texto_base, texto_proposta, analise,
                   metricas, resultados, metricas_gerais, erros, calls,
                   falhas, n_lidos, n_chamadas, puras>>

\* a slip in analisar_contrato: the return of line 185 is missing, so Gemini
\* is asked even after OpenAI has answered
DestinoOpenAI_semReturn(d, svc) ==
    IF "gemini" \in svc THEN "gemini" ELSE "retorno"

\* a change of analisar_contrato: a failed OpenAI call is tried again
DestinoOpenAI_retry(d, svc) ==
    IF d.erro = "none" THEN "retorno" ELSE "openai"

\* where analisar_contrato goes after the OpenAI call (lines 185-190)
DestinoOpenAI(d, svc) ==
    IF d.erro = "none" THEN "retorno"
    ELSE IF "gemini" \in svc THEN "gemini"
    ELSE "retorno"

\* lines 176-188: the OpenAI call
ChamarOpenAI ==
    /\ pc = "openai"
    /\ \E d \in DesfechosOpenAI :
          /\ calls' = Append(calls, Chamada("openai", d))
          /\ analise' = d.conteudo
          /\ pc' = DestinoOpenAI(d, services)
    /\ n_chamadas' = n_chamadas + 1
    /\ UNCHANGED <<nPropostas, i, services_cached, services, texto_base,
                   texto_proposta, prompt, metricas, resultados,
                   metricas_gerais, erros, falhas, n_lidos, puras>>

\* lines 190-198: the Gemini call; after it analisar_contrato returns
ChamarGemini ==
    /\ pc = "gemini"
    /\ \E d \in DesfechosGemini :
          /\ calls' = Append(calls, Chamada("gemini", d))
          /\ analise' = d.conteudo
    /\ pc' = "retorno"
    /\ n_chamadas' = n_chamadas + 1
    /\ UNCHANGED <<nPropostas, i, services_cached, services, texto_base,
                   texto_proposta, prompt, metricas, resultados,
                   metricas_gerais, erros, falhas, n_lidos, puras>>

\* lines 266-272: main receives analise; None is a failure, else the metrics
ReceberAnalise ==
    /\ pc = "retorno"
    /\ IF analise = None
       THEN /\ erros' = Append(erros, Erro(i, "Falha na analise"))
            /\ falhas' = falhas \cup {<<i, "provedores">>}
            /\ FimDaIteracao
            /\ UNCHANGED metricas
       ELSE /\ metricas' = extrair_metricas(analise.val)
            /\ falhas' = IF metricas' = None
                         THEN falhas \cup {<<i, "metricas">>}
                         ELSE falhas
            /\ pc' = "relatorio"
            /\ UNCHANGED <<i, erros, texto_proposta, prompt, analise, calls>>
    /\ UNCHANGED <<nPropostas, services_cached, services, texto_base,
                   resultados, metricas_gerais, n_lidos, n_chamadas, puras>>

\* lines 274-295: the report is rendered (gerar_pdf and the widgets may
\* raise), then the metrics and the name are recorded
GerarRelatorio ==
    /\ pc = "relatorio"
    /\ \E pdf_ok \in BOOLEAN :
          IF pdf_ok
          THEN /\ metricas_gerais' =
                     IF metricas # None
                     THEN Append(metricas_gerais,
                                 [Proposta |-> i, dados |-> metricas])
                     ELSE metricas_gerais
               /\ resultados' = Append(resultados, i)
               /\ UNCHANGED <<erros, falhas>>
          ELSE /\ erros' = Append(erros, Erro(i, "Falha na proposta"))
               /\ falhas' = falhas \cup {<<i, "relatorio">>}
               /\ UNCHANGED <<metricas_gerais, resultados>>
    /\ FimDaIteracao
    /\ metricas' = None
    /\ UNCHANGED <<nPropostas, services_cached, services, texto_base,
                   n_lidos, n_chamadas, puras>>

\* lines 297-321: the loop is over; the dashboard and the closing message
Concluir ==
    /\ pc = "loop"
    /\ i > nPropostas
    /\ pc' = "done"
    /\ UNCHANGED <<nPropostas, i, services_cached, services, texto_base,
                   texto_proposta, prompt, analise, metricas, resultados,
                   metricas_gerais, erros, calls, falhas, n_lidos,
                   n_chamadas, puras>>

Next ==
    \/ Executar
    \/ LerProposta
    \/ IniciarAnalise
    \/ ChamarOpenAI
    \/ ChamarGemini
    \/ ReceberAnalise
    \/ GerarRelatorio
    \/ Concluir

Spec == Init /\ [][Next]_vars

(***************************************************************************)
(* extrair_metricas alone, over every analysis text of at most MaxAnalise  *)
(* atoms.                                                                  *)
(***************************************************************************)
SeqsUpTo(S, n) == UNION {[1..k -> S] : k \in 0..n}

AtomosAnalise == {"L", "%", "9", "-", " ", "R", "Revisar", "Aprovar"}

InitExtract ==
    /\ pc = "x_entrada"
    /\ analise \in {Some(t) : t \in SeqsUpTo(AtomosAnalise, MaxAnalise)}
    /\ nPropostas = 0
    /\ i = 0
    /\ services_cached = FALSE
    /\ services = {}
    /\ texto_base = None
    /\ texto_proposta = None
    /\ prompt = None
    /\ metricas = None
    /\ resultados = <<>>
    /\ metricas_gerais = <<>>
    /\ erros = <<>>
    /\ calls = <<>>
    /\ falhas = {}
    /\ n_lidos = 0
    /\ n_chamadas = 0
    /\ entrada = <<>>
    /\ orcamento = 0
    /\ limitado = None
    /\ relimitado = None

\* line 272: metricas = extrair_metricas(analise)
Extrair ==
    /\ pc = "x_entrada"
    /\ metricas' = extrair_metricas(analise.val)
    /\ pc' = "x_feito"
    /\ UNCHANGED <<nPropostas, i, services_cached, services, texto_base,
                   texto_proposta, prompt, analise, resultados,
                   metricas_gerais, erros, calls, falhas, n_lidos,
                   n_chamadas, puras>>

NextExtract == Extrair

SpecExtract == InitExtract /\ [][NextExtract]_vars

(***************************************************************************)
(* The truncation alone, over every text of at most MaxTexto atoms: the    *)
(* slice [:N], then the two places that apply it in a row (ler_arquivo,    *)
(* then the prompt of analisar_contrato).                                  *)
(***************************************************************************)
AtomosTexto == {"a", "7", " ", "\n"}

InitBound ==
    /\ pc = "b_entrada"
    /\ entrada \in SeqsUpTo(AtomosTexto, MaxTexto)
    /\ orcamento = 0
    /\ limitado = None
    /\ relimitado = None
    /\ nPropostas = 0
    /\ i = 0
    /\ services_cached = FALSE
    /\ services = {}
    /\ texto_base = None
    /\ texto_proposta = None
    /\ prompt = None
    /\ analise = None
    /\ metricas = None
    /\ resultados = <<>>
    /\ metricas_gerais = <<>>
    /\ erros = <<>>
    /\ calls = <<>>
    /\ falhas = {}
    /\ n_lidos = 0
    /\ n_chamadas = 0

principais == <<nPropostas, i, services_cached, services, analise, metricas,
                resultados, metricas_gerais, erros, calls, falhas, n_lidos,
                n_chamadas>>

\* text[:N]
Limitar ==
    /\ pc = "b_entrada"
    /\ \E N \in 0..(MaxBudget + 1) :
          /\ orcamento' = N
          /\ limitado' = Some(bound(entrada, N))
    /\ pc' = "b_limitado"
    /\ UNCHANGED <<entrada, relimitado, texto_base, texto_proposta, prompt,
                   principais>>

\* text[:N][:M]
Relimitar ==
    /\ pc = "b_limitado"
    /\ \E M \in 0..(MaxBudget + 1) :
          relimitado' = Some([M |-> M, text |-> bound(limitado.val, M)])
    /\ pc' = "b_relimitado"
    /\ UNCHANGED <<entrada, orcamento, limitado, texto_base, texto_proposta,
                   prompt, principais>>

\* lines 254 and 265: the text is the body of a DOCX baseline and the one
\* page of a PDF candidate
LerDocumentos ==
    /\ pc = "b_entrada"
    /\ texto_base' =
          Some(ler_arquivo(Arquivo("docx", 1000, TRUE, <<>>, entrada)).text)
    /\ texto_proposta' =
          Some(ler_arquivo(Arquivo("pdf", 1000, TRUE, <<Some(entrada)>>,
                                   <<>>)).text)
    /\ pc' = "b_lido"
    /\ UNCHANGED <<entrada, orcamento, limitado, relimitado, prompt,
                   principais>>

\* lines 147-148: the prompt cuts both texts again
MontarPrompt ==
    /\ pc = "b_lido"
    /\ prompt' = Some(montar_prompt(texto_base.val, texto_proposta.val, 1))
    /\ pc' = "b_prompt"
    /\ UNCHANGED <<entrada, orcamento, limitado, relimitado, texto_base,
                   texto_proposta, principais>>

NextBound ==
    \/ Limitar
    \/ Relimitar
    \/ LerDocumentos
    \/ MontarPrompt

SpecBound == InitBound /\ [][NextBound]_vars

(***************************************************************************)
(* Properties of the orchestrator, the coordinator and the pure functions. *)
(***************************************************************************)
falhou(c) == c.desfecho.erro # "none"
Transitorios == {"RateLimited", "Timeout", "ServiceUnavailable"}
em_branco(t) == strip(t) = <<>>
nomes_com_erro == {erros[k].proposta : k \in 1..Len(erros)}
nomes_concluidos == {resultados[k] : k \in 1..Len(resultados)}
nomes_com_metricas ==
    {metricas_gerais[k].Proposta : k \in 1..Len(metricas_gerais)}

\* C1: provider order is a strict priority.  In the calls made for one
\* candidate, Gemini is called (or about to be called) only when OpenAI is
\* not configured or every earlier call was an OpenAI call that failed, no
\* OpenAI call follows a Gemini call, and a call that returned a result is
\* the last call made for that candidate.
C1_PrioridadeEstrita ==
    /\ \A j \in 1..Len(calls) :
          /\ calls[j].provider = "gemini" =>
                /\ \A k \in 1..(j - 1) :
                      calls[k].provider = "openai" /\ falhou(calls[k])
                /\ j = 1 => "openai" \notin services
          /\ calls[j].provider = "openai" =>
                \A k \in 1..(j - 1) : calls[k].provider # "gemini"
          /\ ~ falhou(calls[j]) =>
                j = Len(calls) /\ pc \in {"retorno", "relatorio"}
    /\ pc = "gemini" =>
          /\ \A k \in 1..Len(calls) :
                calls[k].provider = "openai" /\ falhou(calls[k])
          /\ calls = <<>> => "openai" \notin services

\* C1 witness: OpenAI refused the key, then Gemini was called and answered.
C1_Witness ==
    /\ Len(calls) = 2
    /\ calls[1].provider = "openai"
    /\ calls[1].desfecho.erro = "Unauthorized"
    /\ calls[2].provider = "gemini"
    /\ ~ falhou(calls[2])

C3_Original ==
    pc = "relatorio" =>
        /\ analise # None
        /\ analise.val # <<>>
        /\ calls[Len(calls)].desfecho.conteudo = analise

\* C4: when reading the baseline fails, the run ends in the critical error:
\* no candidate is read, no provider is called, and no result, metrics
\* record or candidate error is produced.
C4_BaseIlegivelAborta ==
    (pc # "idle" /\ texto_base = None) =>
        /\ pc = "erro_critico"
        /\ n_lidos = 0
        /\ n_chamadas = 0
        /\ ~ services_cached
        /\ resultados = <<>>
        /\ metricas_gerais = <<>>
        /\ erros = <<Erro(0, "Erro critico")>>

\* C4 witness: the baseline could not be read and the run has ended.
C4_Witness ==
    /\ pc = "erro_critico"
    /\ texto_base = None
    /\ nPropostas = MaxPropostas

\* C5 as written: once the baseline is read, a candidate whose pipeline
\* failed at any step (read, providers, metrics, report) has an error
\* recorded, is not among the concluded candidates and has no metrics
\* record; the run is not aborted and ends with every candidate read.
C5_Original ==
    /\ \A f \in falhas :
          (f[1] < i) =>
              /\ f[1] \in nomes_com_erro
              /\ f[1] \notin nomes_concluidos
              /\ f[1] \notin nomes_com_metricas
    /\ texto_base # None => pc # "erro_critico"
    /\ pc = "done" => n_lidos = nPropostas

\* C6 as written: when the run completes, every candidate has exactly one
\* outcome, the outcomes are in submission order, a failure carries a
\* reason and a success carries a metrics record.
C6_Original ==
    pc = "done" =>
        /\ \A c \in 1..nPropostas :
              /\ Cardinality({k \in 1..Len(erros) : erros[k].proposta = c})
                 + Cardinality({k \in 1..Len(resultados) : resultados[k] = c})
                 = 1
              /\ c \in nomes_concluidos => c \in nomes_com_metricas
        /\ \A k \in 1..Len(erros) : erros[k].msg # ""
        /\ \A j \in 1..Len(erros), k \in 1..Len(erros) :
              j < k => erros[j].proposta < erros[k].proposta
        /\ \A j \in 1..Len(resultados), k \in 1..Len(resultados) :
              j < k => resultados[j] < resultados[k]

\* C7 as written: extrair_metricas returns a metrics record for every
\* analysis text, never an absent result.
C7_Original == pc = "x_feito" => metricas.tag = "dict"

\* C9 as written: the conformance of every record extrair_metricas returns
\* is an integer in 0..100 when an integer followed by the percent sign
\* comes after the label, and is otherwise not a number.
C9_Original ==
    (pc = "x_feito" /\ metricas.tag = "dict") =>
        IF le_conformidade(analise.val)
        THEN metricas.Conformidade \in 0..100
        ELSE metricas.Conformidade \notin Int

\* C8 as written: ler_arquivo never returns a text that is blank after
\* trimming, so neither text of the prompt is blank when a provider is
\* called.
C8_Original ==
    /\ texto_base # None => ~ em_branco(texto_base.val)
    /\ texto_proposta # None => ~ em_branco(texto_proposta.val)
    /\ pc \in {"openai", "gemini"} =>
          /\ ~ em_branco(prompt.val.base)
          /\ ~ em_branco(prompt.val.proposta)

eh_prefixo(t, text) == Len(t) <= Len(text) /\ t = SubSeq(text, 1, Len(t))

\* C10: text[:N] is the longest prefix of text of length at most N; cutting
\* it again to any M >= N changes nothing; and the prompt embeds the texts
\* ler_arquivo returned unchanged.
C10_PrefixoIdempotente ==
    /\ pc \in {"b_limitado", "b_relimitado"} =>
          /\ eh_prefixo(limitado.val, entrada)
          /\ Len(limitado.val) <= orcamento
          /\ \A n \in 0..Len(entrada) :
                n <= orcamento => n <= Len(limitado.val)
    /\ (pc = "b_relimitado" /\ relimitado.val.M >= orcamento) =>
          relimitado.val.text = limitado.val
    /\ pc \in {"b_lido", "b_prompt"} =>
          /\ Len(texto_base.val) <= MAX_TOKENS
          /\ Len(texto_proposta.val) <= MAX_TOKENS
    /\ pc = "b_prompt" =>
          /\ prompt.val.base = texto_base.val
          /\ prompt.val.proposta = texto_proposta.val

\* C10 witness: a text longer than the budget was cut, then cut again with
\* a larger budget.
C10_Witness ==
    /\ pc = "b_relimitado"
    /\ orcamento > 0
    /\ Len(entrada) > orcamento
    /\ relimitado.val.M > orcamento
    /\ relimitado.val.text = limitado.val

====
